---- MODULE Spec2Model ----
(***************************************************************************)
(* Book management service (src/main.py): five FastAPI handlers over the   *)
(* SQLAlchemy table books(id, title, author), one session per request.     *)
(*                                                                         *)
(* A request is a small process: get_db opens its session and FastAPI      *)
(* validates path and body, the handler runs its database calls one at a   *)
(* time (query, commit, refresh), and get_db's finally closes the session. *)
(* Sync handlers run on a thread pool, so the database calls of different  *)
(* requests interleave; Spec serves one request at a time, SpecConc lets   *)
(* the requests of all workers interleave.                                 *)
(***************************************************************************)
EXTENDS Integers, Sequences, FiniteSets, TLC

VARIABLES books, autoInc, coerce, sessions, req, last

vars == <<books, autoInc, coerce, sessions, req, last>>

(* ------------------------------ bounds --------------------------------- *)

\* ids the store hands out before the model stops creating rows
MaxId == 2

\* worker threads serving requests at the same time
NumWorkers == 2

Workers == 1..NumWorkers

(* ------------------------------- text ---------------------------------- *)

\* Column(String(255)): the width of the title and of the author column
TitleCap == 255

AuthorCap == 255

\* A text is run-length encoded: <<>> is "", << <<c, n>> >> is c repeated n times.
Rep(c, n) == IF n = 0 THEN <<>> ELSE << <<c, n>> >>

StrLen(t) == IF t = <<>> THEN 0 ELSE t[1][2]

\* Python's None / SQL NULL: no text at all, distinct from every text
None == << <<"", 0>> >>

\* the texts requests carry: "", "5", and one wider than the columns
Texts == {Rep("5", n) : n \in {0, 1, TitleCap + 1}}

\* the texts of the bodies sent while requests interleave: "5" and "55"
ShortTexts == {Rep("5", n) : n \in {1, 2}}

(* --------------------------- request inputs ---------------------------- *)

\* A JSON member of the request body: a string, a number (v is its decimal
\* rendering), null, or absent from the object.
JsonVals ==
    [kind : {"str"}, v : Texts]
      \cup {[kind |-> "num", v |-> Rep("5", 1)],
            [kind |-> "null", v |-> None],
            [kind |-> "absent", v |-> None]}

Bodies == [title : JsonVals, author : JsonVals]

ConcBodies == [title : [kind : {"str"}, v : ShortTexts],
               author : [kind : {"str"}, v : ShortTexts]]

NoBody == [title |-> [kind |-> "absent", v |-> None],
           author |-> [kind |-> "absent", v |-> None]]

\* A path segment {book_id}: digits (int is TRUE, n its value) or other text.
Paths == [int : {TRUE}, n : 0..MaxId] \cup {[int |-> FALSE, n |-> 0]}

NoPath == [int |-> TRUE, n |-> 0]

Ops == {"get_books", "get_book", "create_book", "update_book", "delete_book"}

\* the requests a client can send, with bodies drawn from B
Requests(B) ==
    [op : {"get_books"}, path : {NoPath}, body : {NoBody}]
      \cup [op : {"get_book", "delete_book"}, path : Paths, body : {NoBody}]
      \cup [op : {"create_book"}, path : {NoPath}, body : B]
      \cup [op : {"update_book"}, path : Paths, body : B]

HasPath(op) == op \in {"get_book", "update_book", "delete_book"}

HasBody(op) == op \in {"create_book", "update_book"}

\* what was sent, as the client sees it: the JSON type of each member of the
\* body and whether the path segment is an integer
Sent(op, path, body) ==
    [title |-> IF HasBody(op) THEN body.title.kind ELSE "",
     author |-> IF HasBody(op) THEN body.author.kind ELSE "",
     int |-> HasPath(op) => path.int]

NothingSent == [title |-> "", author |-> "", int |-> TRUE]

(* ---------------------------- validation ------------------------------- *)

\* pydantic's validation of a field annotated str. pydantic 1 (the API of
\* class Config / orm_mode) coerces a JSON number with str(); pydantic 2
\* refuses it. lax tells which of the two is installed.
StrOk(j, lax) == j.kind = "str" \/ (lax /\ j.kind = "num")

BookCreateOk(b, lax) == StrOk(b.title, lax) /\ StrOk(b.author, lax)

\* the BookCreate instance the handler receives
BookCreate(b) == [title |-> b.title.v, author |-> b.author.v]

NoInput == [title |-> None, author |-> None]

RequestOk(op, path, body, lax) ==
    /\ HasPath(op) => path.int
    /\ HasBody(op) => BookCreateOk(body, lax)

(* ------------------------------ the store ------------------------------ *)

\* books is the table: the set of its rows.
Book(id, title, author) == [id |-> id, title |-> title, author |-> author]

NoBook == Book(0, None, None)

IdsOf(t) == {r.id : r \in t}

\* db.query(Book).filter(Book.id == id).first()
First(t, id) == CHOOSE r \in t : r.id = id

RECURSIVE ById(_)
ById(t) ==
    IF t = {} THEN <<>>
    ELSE LET r == CHOOSE r \in t : \A q \in t : r.id <= q.id
         IN  <<r>> \o ById(t \ {r})

\* a slip: .first() where .all() was meant
AllRowsFirst(t) == IF t = {} THEN <<>> ELSE <<ById(t)[1]>>

\* db.query(Book).all(): one entity per row, in primary-key order
AllRows(t) == ById(t)

\* a slip: the columns declared without a width
StorableAnyWidth(title, author) == title /= None /\ author /= None

\* nullable=False and String(255): the server refuses NULL and, in strict
\* SQL mode (its default), a value wider than the column
Storable(title, author) ==
    /\ title /= None /\ StrLen(title) <= TitleCap
    /\ author /= None /\ StrLen(author) <= AuthorCap

\* a slip: the id supplied by the handler instead of the server
AssignedIdStuck(next) == 1

\* primary_key=True on an Integer column: the server numbers the rows
AssignedId(next) == next

\* a slip: author=book.title in the constructor call
InsertedTitleTwice(t, id, title, author) == t \cup {Book(id, title, title)}

\* INSERT INTO books (title, author) VALUES (...)
Inserted(t, id, title, author) == t \cup {Book(id, title, author)}

\* a slip: the DELETE without its WHERE clause
RemoveAll(t, id) == {}

\* DELETE FROM books WHERE id = ...
Remove(t, id) == {r \in t : r.id /= id}

(* ----------------------------- responses ------------------------------- *)

NoMessage == [text |-> "", id |-> 0]

Response(status, detail, rows, message) ==
    [status |-> status, detail |-> detail, rows |-> rows, message |-> message]

NoResp == Response(0, "", <<>>, NoMessage)

\* response_model=BookOut / List[BookOut]
Ok(rows) == Response(200, "", rows, NoMessage)

NotFound == Response(404, "Book not found", <<>>, NoMessage)

Unprocessable == Response(422, "validation error", <<>>, NoMessage)

ServerError == Response(500, "Internal Server Error", <<>>, NoMessage)

Deleted(id) ==
    Response(200, "", <<>>, [text |-> "Book(id={id}) deleted succesfully", id |-> id])

(* ------------------------------ requests ------------------------------- *)

Idle == [pc |-> "idle", op |-> "", id |-> 0, input |-> NoInput, db |-> 0,
         obj |-> NoBook, resp |-> NoResp, sent |-> NothingSent]

NoLast == [op |-> "", id |-> 0, resp |-> NoResp]

Init ==
    /\ books = {}
    /\ autoInc = 1
    /\ coerce \in BOOLEAN
    /\ sessions = {}
    /\ req = [w \in Workers |-> Idle]
    /\ last = NoLast

\* the pool hands a request to its first idle worker
Free(w) == req[w].pc = "idle" /\ \A v \in Workers : v < w => req[v].pc /= "idle"

\* SessionLocal(): a new Session object, distinct from every open one
NewSession == CHOOSE k \in 1..NumWorkers : k \notin sessions

\* the handler leaves (return or raise) with response r; get_db's finally is next
Leave(w, r) ==
    req' = [req EXCEPT ![w].pc = "finally", ![w].resp = r, ![w].obj = NoBook]

\* A request arrives: get_db creates the session, FastAPI validates the path
\* and the body, and the handler is entered only when both are valid.
get_db_open(w, op, path, body) ==
    /\ Free(w)
    /\ sessions' = sessions \cup {NewSession}
    /\ req' = [req EXCEPT ![w] =
          IF RequestOk(op, path, body, coerce)
          THEN [pc |-> "handler", op |-> op,
                id |-> IF HasPath(op) THEN path.n ELSE 0,
                input |-> IF HasBody(op) THEN BookCreate(body) ELSE NoInput,
                db |-> NewSession, obj |-> NoBook, resp |-> NoResp,
                sent |-> Sent(op, path, body)]
          ELSE [pc |-> "finally", op |-> op, id |-> 0, input |-> NoInput,
                db |-> NewSession, obj |-> NoBook, resp |-> Unprocessable,
                sent |-> Sent(op, path, body)]]
    /\ UNCHANGED <<books, autoInc, coerce, last>>

\* a slip: db.close() after the yield without try/finally, so that it is
\* skipped when the handler raises
get_db_close_on_return(w) ==
    /\ req[w].pc = "finally"
    /\ sessions' = IF req[w].resp.status = 200 THEN sessions \ {req[w].db} ELSE sessions
    /\ req' = [req EXCEPT ![w] = Idle]
    /\ UNCHANGED <<books, autoInc, coerce>>

\* get_db's finally: db.close(); the response goes out
get_db_close(w) ==
    /\ req[w].pc = "finally"
    /\ sessions' = sessions \ {req[w].db}
    /\ req' = [req EXCEPT ![w] = Idle]
    /\ UNCHANGED <<books, autoInc, coerce>>

\* what the client has in hand once request w is answered
Answer(w) == [op |-> req[w].op, id |-> req[w].id, resp |-> req[w].resp]

get_books(w) ==
    /\ req[w].pc = "handler" /\ req[w].op = "get_books"
    /\ Leave(w, Ok(AllRows(books)))
    /\ UNCHANGED <<books, autoInc, coerce, sessions, last>>

get_book(w) ==
    /\ req[w].pc = "handler" /\ req[w].op = "get_book"
    /\ IF req[w].id \in IdsOf(books)
       THEN Leave(w, Ok(<<First(books, req[w].id)>>))
       ELSE Leave(w, NotFound)
    /\ UNCHANGED <<books, autoInc, coerce, sessions, last>>

\* lines 57-62: Book(...), db.add, db.commit: the INSERT. The store assigns
\* the next AUTO_INCREMENT id; a value it cannot store makes commit raise.
create_book_commit(w) ==
    /\ req[w].pc = "handler" /\ req[w].op = "create_book"
    /\ IF Storable(req[w].input.title, req[w].input.author)
       THEN /\ autoInc <= MaxId
            /\ books' = Inserted(books, AssignedId(autoInc),
                                 req[w].input.title, req[w].input.author)
            /\ autoInc' = autoInc + 1
            /\ req' = [req EXCEPT ![w].pc = "refresh", ![w].id = AssignedId(autoInc)]
       ELSE /\ Leave(w, ServerError)
            /\ UNCHANGED <<books, autoInc>>
    /\ UNCHANGED <<coerce, sessions, last>>

\* db.refresh(obj) and return: the row is read again by primary key; a row
\* that is gone makes refresh raise.
Refreshed(w) ==
    IF req[w].id \in IdsOf(books)
    THEN Leave(w, Ok(<<First(books, req[w].id)>>))
    ELSE Leave(w, ServerError)

create_book_refresh(w) ==
    /\ req[w].pc = "refresh" /\ req[w].op = "create_book"
    /\ Refreshed(w)
    /\ UNCHANGED <<books, autoInc, coerce, sessions, last>>

\* lines 68-73: the query, the 404, and the two attribute assignments, which
\* touch only the loaded object
update_book_query(w) ==
    /\ req[w].pc = "handler" /\ req[w].op = "update_book"
    /\ IF req[w].id \in IdsOf(books)
       THEN req' = [req EXCEPT ![w].pc = "commit", ![w].obj = First(books, req[w].id)]
       ELSE Leave(w, NotFound)
    /\ UNCHANGED <<books, autoInc, coerce, sessions, last>>

\* The flush of db.commit() writes the attributes whose new value differs
\* from the loaded one: UPDATE books SET <those> WHERE id = <obj.id>.
TitleDirty(w) == req[w].input.title /= req[w].obj.title

AuthorDirty(w) == req[w].input.author /= req[w].obj.author

\* a slip: the assignment of author left out
FlushedTitleOnly(w) ==
    {IF r.id /= req[w].obj.id THEN r
     ELSE Book(r.id, IF TitleDirty(w) THEN req[w].input.title ELSE r.title, r.author)
       : r \in books}

Flushed(w) ==
    {IF r.id /= req[w].obj.id THEN r
     ELSE Book(r.id,
               IF TitleDirty(w) THEN req[w].input.title ELSE r.title,
               IF AuthorDirty(w) THEN req[w].input.author ELSE r.author)
       : r \in books}

\* line 75: nothing dirty, nothing sent; an UPDATE that matches no row or
\* carries a value the store refuses raises.
update_book_commit(w) ==
    /\ req[w].pc = "commit" /\ req[w].op = "update_book"
    /\ IF ~TitleDirty(w) /\ ~AuthorDirty(w)
       THEN /\ req' = [req EXCEPT ![w].pc = "refresh", ![w].obj = NoBook]
            /\ UNCHANGED books
       ELSE IF req[w].obj.id \in IdsOf(books)
                 /\ Storable(IF TitleDirty(w) THEN req[w].input.title ELSE <<>>,
                             IF AuthorDirty(w) THEN req[w].input.author ELSE <<>>)
            THEN /\ books' = Flushed(w)
                 /\ req' = [req EXCEPT ![w].pc = "refresh", ![w].obj = NoBook]
            ELSE /\ Leave(w, ServerError)
                 /\ UNCHANGED books
    /\ UNCHANGED <<autoInc, coerce, sessions, last>>

update_book_refresh(w) ==
    /\ req[w].pc = "refresh" /\ req[w].op = "update_book"
    /\ Refreshed(w)
    /\ UNCHANGED <<books, autoInc, coerce, sessions, last>>

\* a slip: the existence check left out
delete_book_query_unchecked(w) ==
    /\ req[w].pc = "handler" /\ req[w].op = "delete_book"
    /\ req' = [req EXCEPT ![w].pc = "commit"]
    /\ UNCHANGED <<books, autoInc, coerce, sessions, last>>

\* lines 81-85: the query, the 404, db.delete(obj)
delete_book_query(w) ==
    /\ req[w].pc = "handler" /\ req[w].op = "delete_book"
    /\ IF req[w].id \in IdsOf(books)
       THEN req' = [req EXCEPT ![w].pc = "commit"]
       ELSE Leave(w, NotFound)
    /\ UNCHANGED <<books, autoInc, coerce, sessions, last>>

\* lines 86-87: DELETE FROM books WHERE id = <obj.id>; a DELETE that matches
\* no row only warns.
delete_book_commit(w) ==
    /\ req[w].pc = "commit" /\ req[w].op = "delete_book"
    /\ books' = Remove(books, req[w].id)
    /\ Leave(w, Deleted(req[w].id))
    /\ UNCHANGED <<autoInc, coerce, sessions, last>>

\* A query or a commit fails in the store (connection lost, server error):
\* the exception leaves the handler, the transaction is not applied.
store_failure(w) ==
    /\ req[w].pc \in {"handler", "commit", "refresh"}
    /\ Leave(w, ServerError)
    /\ UNCHANGED <<books, autoInc, coerce, sessions, last>>

\* One request at a time: the next one is sent when the previous one has been
\* answered, and last is the answer the client received to the previous one.
Next ==
    \/ /\ \A v \in Workers : req[v].pc = "idle"
       /\ \E w \in Workers, r \in Requests(Bodies) :
             get_db_open(w, r.op, r.path, r.body)
    \/ \E w \in Workers : get_books(w)
    \/ \E w \in Workers : get_book(w)
    \/ \E w \in Workers : create_book_commit(w)
    \/ \E w \in Workers : create_book_refresh(w)
    \/ \E w \in Workers : update_book_query(w)
    \/ \E w \in Workers : update_book_commit(w)
    \/ \E w \in Workers : update_book_refresh(w)
    \/ \E w \in Workers : delete_book_query(w)
    \/ \E w \in Workers : delete_book_commit(w)
    \/ \E w \in Workers : store_failure(w)
    \/ \E w \in Workers : get_db_close(w) /\ last' = Answer(w)

Spec == Init /\ [][Next]_vars

\* The requests of all workers interleave.
NextConc ==
    \/ \E w \in Workers, r \in Requests(ConcBodies) :
          get_db_open(w, r.op, r.path, r.body)
    \/ \E w \in Workers : get_books(w)
    \/ \E w \in Workers : get_book(w)
    \/ \E w \in Workers : create_book_commit(w)
    \/ \E w \in Workers : create_book_refresh(w)
    \/ \E w \in Workers : update_book_query(w)
    \/ \E w \in Workers : update_book_commit(w)
    \/ \E w \in Workers : update_book_refresh(w)
    \/ \E w \in Workers : delete_book_query(w)
    \/ \E w \in Workers : delete_book_commit(w)
    \/ \E w \in Workers : store_failure(w)
    \/ \E w \in Workers : get_db_close(w) /\ UNCHANGED last

SpecConc == Init /\ [][NextConc]_vars

(* ------------------------------ claims --------------------------------- *)

\* request w has ended with response status st and waits for get_db's finally
Ended(w, op, st) ==
    req[w].pc = "finally" /\ req[w].op = op /\ req[w].resp.status = st

\* the request before this one was op on id and was answered 200
After(op) == last.op = op /\ last.resp.status = 200

\* C1: create_book answers with the view (assigned id, b.title, b.author) of
\* the row it stored, and a get_book of that id sent next, unless the store
\* fails it, answers with the same view.
C1_CreateThenGet ==
    \A w \in Workers :
       /\ Ended(w, "create_book", 200) =>
             /\ req[w].resp.rows =
                  <<Book(req[w].id, req[w].input.title, req[w].input.author)>>
             /\ req[w].id = autoInc - 1
             /\ req[w].resp.rows[1] \in books
       /\ ( /\ After("create_book")
            /\ req[w].pc = "finally" /\ req[w].op = "get_book"
            /\ req[w].id = last.resp.rows[1].id
            /\ req[w].resp /= ServerError )
          => req[w].resp = last.resp

C1_Witness ==
    \E w \in Workers :
       /\ After("create_book")
       /\ Ended(w, "get_book", 200)
       /\ req[w].id = last.resp.rows[1].id
       /\ last.resp.rows[1].title = Rep("5", 1)

\* worker w takes a step out of program point pc of an op request
Leaves(w, op, pc) ==
    req[w].op = op /\ req[w].pc = pc /\ req'[w].pc /= pc

ById3 == {"get_book", "update_book", "delete_book"}

\* C2: a get_book, update_book or delete_book of an id that has no row is
\* answered 404 "Book not found" unless the store fails it, and no step of
\* that request changes the table.
C2_AbsentId ==
    /\ [](\A w \in Workers :
            req[w].pc = "finally" /\ req[w].resp.status = 404
               => req[w].op \in ById3 /\ req[w].resp = NotFound)
    /\ [][\A w \in Workers :
            /\ ( /\ req[w].pc = "handler" /\ req[w].op \in ById3
                 /\ req[w].id \notin IdsOf(books) /\ req'[w].pc /= "handler" )
               => /\ req'[w].pc = "finally"
                  /\ req'[w].resp \in {NotFound, ServerError}
                  /\ books' = books
            /\ req[w].pc = "finally" /\ req[w].resp = NotFound
               => books' = books /\ req'[w].pc = "idle"]_vars

C2_Witness ==
    \E w \in Workers :
       /\ Ended(w, "delete_book", 404)
       /\ req[w].id = 1
       /\ books /= {}

\* C3: update_book of an id that has a row is not answered 404; its commit
\* replaces title and author of that row by b2's, leaving the row's id, the
\* other rows and the number of rows as they were; it answers with the view
\* (id, b2.title, b2.author), and so does a get_book of that id sent next.
C3_UpdateThenGet ==
    /\ [](\A w \in Workers :
            /\ Ended(w, "update_book", 200) =>
                  /\ req[w].resp.rows =
                       <<Book(req[w].id, req[w].input.title, req[w].input.author)>>
                  /\ req[w].resp.rows[1] \in books
            /\ ( /\ After("update_book")
                 /\ req[w].pc = "finally" /\ req[w].op = "get_book"
                 /\ req[w].id = last.id
                 /\ req[w].resp /= ServerError )
               => req[w].resp = last.resp)
    /\ [][\A w \in Workers :
            /\ Leaves(w, "update_book", "handler") /\ req[w].id \in IdsOf(books)
               => req'[w].pc = "commit" \/ req'[w].resp = ServerError
            /\ Leaves(w, "update_book", "commit") /\ req'[w].pc = "refresh"
               => /\ books' = {r \in books : r.id /= req[w].id}
                       \cup {Book(req[w].id, req[w].input.title, req[w].input.author)}
                  /\ Cardinality(books') = Cardinality(books)
                  /\ IdsOf(books') = IdsOf(books)]_vars

C3_Witness ==
    \E w \in Workers :
       /\ After("update_book")
       /\ Ended(w, "get_book", 200)
       /\ req[w].id = last.id
       /\ Cardinality(books) = 2
       /\ \E r \in books : r.title /= req[w].resp.rows[1].title

\* C4: delete_book of an id that has a row is not answered 404; its commit
\* removes that row and no other and it answers 200 with the message naming
\* the id. A get_book of that id sent next is answered 404 and a get_books
\* sent next lists no entry with it; an id that has no row gets one only by
\* the INSERT of a create_book, and get_book and get_books report ids of rows.
C4_DeleteThenGet ==
    /\ [](\A w \in Workers :
            /\ ( /\ After("delete_book")
                 /\ req[w].pc = "finally" /\ req[w].op = "get_book"
                 /\ req[w].id = last.id
                 /\ req[w].resp /= ServerError )
               => req[w].resp = NotFound
            /\ After("delete_book") /\ Ended(w, "get_books", 200)
               => \A k \in DOMAIN req[w].resp.rows : req[w].resp.rows[k].id /= last.id
            /\ After("delete_book") => last.resp = Deleted(last.id)
            /\ Ended(w, "get_book", 200) => req[w].id \in IdsOf(books)
            /\ Ended(w, "get_books", 200)
               => {req[w].resp.rows[k].id : k \in DOMAIN req[w].resp.rows} = IdsOf(books))
    /\ [][/\ \A w \in Workers :
               /\ Leaves(w, "delete_book", "handler") /\ req[w].id \in IdsOf(books)
                  => req'[w].pc = "commit" \/ req'[w].resp = ServerError
               /\ Leaves(w, "delete_book", "commit") /\ req'[w].resp /= ServerError
                  => /\ req'[w].resp = Deleted(req[w].id)
                     /\ req[w].id \in IdsOf(books)
                     /\ books' = books \ {First(books, req[w].id)}
                     /\ req[w].id \notin IdsOf(books')
          /\ \A i \in IdsOf(books') \ IdsOf(books) :
               \E w \in Workers :
                  Leaves(w, "create_book", "handler") /\ req'[w].id = i]_vars

C4_Witness ==
    \E w \in Workers :
       /\ After("delete_book")
       /\ Ended(w, "get_books", 200)
       /\ Len(req[w].resp.rows) = 1

\* C5: get_books answers with every row of the table exactly once; the commit
\* of a create_book adds one row, with a new id and b's title and author, and
\* leaves every other row as it was, so a get_books sent next lists the view
\* create_book answered with and as many entries as the table has rows.
C5_ListAfterCreate ==
    /\ [](\A w \in Workers :
            /\ Ended(w, "get_books", 200)
               => /\ Len(req[w].resp.rows) = Cardinality(books)
                  /\ {req[w].resp.rows[k] : k \in DOMAIN req[w].resp.rows} = books
            /\ After("create_book") /\ Ended(w, "get_books", 200)
               => \E k \in DOMAIN req[w].resp.rows : req[w].resp.rows[k] = last.resp.rows[1])
    /\ [][\A w \in Workers :
            Leaves(w, "create_book", "handler") /\ req'[w].pc = "refresh"
               => /\ req'[w].id \notin IdsOf(books)
                  /\ books' = books \cup
                       {Book(req'[w].id, req[w].input.title, req[w].input.author)}
                  /\ Cardinality(books') = Cardinality(books) + 1]_vars

C5_Witness ==
    \E w \in Workers :
       /\ After("create_book")
       /\ Ended(w, "get_books", 200)
       /\ Len(req[w].resp.rows) = 2
       /\ req[w].resp.rows[2] = last.resp.rows[1]

\* C6: no two rows have the same id, no row has a NULL title or author, a
\* create_book stores its row under an id no row holds, and no step but the
\* INSERT of a create_book and the DELETE of a delete_book changes which ids
\* have rows (an update_book leaves every id as it is).
C6_IdsUnique ==
    /\ [](/\ \A r, q \in books : r.id = q.id => r = q
          /\ \A r \in books : r.title /= None /\ r.author /= None /\ r.id \in 1..(autoInc - 1))
    /\ [][/\ \A w \in Workers :
               Leaves(w, "create_book", "handler") /\ req'[w].pc = "refresh"
                  => req'[w].id \notin IdsOf(books) /\ req'[w].id \in IdsOf(books')
          /\ IdsOf(books') /= IdsOf(books)
               => \E w \in Workers :
                     \/ Leaves(w, "create_book", "handler")
                     \/ Leaves(w, "delete_book", "commit")]_vars

C6_Witness ==
    /\ Cardinality(books) = 2
    /\ \E w \in Workers : req[w].op = "update_book" /\ req[w].pc = "refresh"

\* C7 as claimed: no row has an empty title or an empty author.
C7_NonEmpty == \A r \in books : r.title /= <<>> /\ r.author /= <<>>

\* C7, amended: the title and the author of every row are texts of at most
\* 255 characters, the empty text included.
C7_StoredText ==
    \A r \in books :
       /\ r.title /= None /\ StrLen(r.title) \in 0..TitleCap
       /\ r.author /= None /\ StrLen(r.author) \in 0..AuthorCap

C7_Witness == \E r \in books : r.title = <<>> /\ r.author = <<>>

\* request w is an update_book whose UPDATE has been committed
Committed(w) ==
    /\ req[w].op = "update_book"
    /\ req[w].pc = "refresh" \/ (req[w].pc = "finally" /\ req[w].resp.status = 200)

\* C8 as claimed: when two update_book requests for the same id with
\* different bodies have both committed, the row holds the title and author
\* of one of the two bodies in full.
C8_LastWriteWins ==
    \A w, v \in Workers :
       ( /\ w /= v /\ Committed(w) /\ Committed(v)
         /\ req[w].id = req[v].id /\ req[w].input /= req[v].input
         /\ req[w].id \in IdsOf(books) )
       => LET r == First(books, req[w].id)
          IN  [title |-> r.title, author |-> r.author] \in {req[w].input, req[v].input}

\* C9: the open sessions are exactly those of the requests in progress, one
\* each and no two the same, whatever way the handlers left; with no request
\* in progress no session is open.
C9_SessionsClosed ==
    /\ sessions = {req[w].db : w \in {v \in Workers : req[v].pc /= "idle"}}
    /\ \A w \in Workers : req[w].pc = "idle" <=> req[w].db = 0
    /\ \A w, v \in Workers : w /= v /\ req[w].pc /= "idle" => req[w].db /= req[v].db
    /\ (\A w \in Workers : req[w].pc = "idle") => sessions = {}

C9_Witness ==
    /\ req[1].pc = "idle"
    /\ req[2].pc = "finally" /\ req[2].resp = NotFound
    /\ sessions = {req[2].db}

\* what the request of w carried is malformed: a member of the body missing
\* or not a string, or a path id that is not an integer
Malformed(w) ==
    \/ req[w].sent.title \notin {"str", ""}
    \/ req[w].sent.author \notin {"str", ""}
    \/ ~req[w].sent.int

\* C10 as claimed: a malformed request is answered 422 and its handler is
\* never entered.
C10_MalformedRejected ==
    \A w \in Workers :
       req[w].pc /= "idle" /\ Malformed(w)
          => req[w].pc = "finally" /\ req[w].resp = Unprocessable

====
